---- MODULE Spec2Model ----
(***************************************************************************)
(* A model of tap_salesforce/salesforce/__init__.py: the Salesforce client *)
(* (login and its renewal timer, describe, _make_request and the REST      *)
(* quota check, the query builder) and the field type mapper.              *)
(*                                                                         *)
(* Python's None is the string NoneVal; a Python dict is a TLA+ function   *)
(* whose domain is the set of keys present.  A schema's declared type is   *)
(* the sequence of its type names: <<T>> for the string T, <<"null", T>>   *)
(* for the list ["null", T].                                               *)
(***************************************************************************)
EXTENDS Integers, Sequences, FiniteSets, TLC

VARIABLES
    \* ---- field_to_property_schema(field, mdata) and its result
    field,              \* the field descriptor {name, type, nillable}
    mdata,              \* the metadata map handed in
    mapper_result,      \* pc "pending" before the call, then what the call produced
    \* ---- Salesforce._build_query_string(catalog_entry, start_date, end_date)
    catalog_entry,      \* {stream, replication_key, properties, selected, inclusion}
    start_date,
    end_date,
    query,              \* NoneVal before the call, then the string returned
    \* ---- the Salesforce client object
    access_token,               \* self.access_token
    instance_url,               \* self.instance_url
    quota_percent_per_run,      \* self.quota_percent_per_run
    quota_percent_total,        \* self.quota_percent_total
    rest_requests_attempted,    \* self.rest_requests_attempted
    login_timer,                \* self.login_timer: index into timers, NoTimer for None
    \* ---- the threads
    caller,             \* the calling thread: its position, locals and last result
    timers,             \* every threading.Timer created so far, in creation order
    sent,               \* the last HTTP request session.get/session.post sent
    \* ---- the environment
    now,                \* wall-clock seconds since the client was constructed
    issue_time,         \* the server's ledger: issue_time[n] is when token n was issued
    \* ---- bookkeeping (not program state)
    n_logins,           \* login() invocations so far
    returned_count,     \* usage-carrying responses _make_request has returned
    allotted_seen,      \* the allotted values of the well-formed usage headers so far
    precondition_lost,  \* a usage header was malformed, or total usage was over
    \* ---- check_rest_quota_usage called on its own
    q_headers,          \* the value of headers.get('Sforce-Limit-Info')
    q_outcome           \* pc "pending" before the call, then what the call did

mapperVars == <<field, mdata, mapper_result>>
queryVars  == <<catalog_entry, start_date, end_date, query>>
quotaVars  == <<q_headers, q_outcome>>
configVars == <<quota_percent_per_run, quota_percent_total>>
sessionVars == <<access_token, instance_url, login_timer, timers, now, issue_time,
                 n_logins>>
requestVars == <<rest_requests_attempted, sent, returned_count, allotted_seen,
                 precondition_lost>>
clientVars == <<configVars, sessionVars, requestVars, caller>>
vars == <<mapperVars, queryVars, quotaVars, clientVars>>

NoneVal == "<None>"
EmptyDict == [k \in {} |-> k]
\* None where a dict is expected
NoneDict == (NoneVal :> NoneVal)

(***************************************************************************)
(* The type mapper                                                         *)
(***************************************************************************)
STRING_TYPES == {"id", "string", "picklist", "textarea", "phone", "url",
                 "reference", "multipicklist", "combobox", "encryptedstring",
                 "email", "complexvalue", "masterrecord",
                 "datacategorygroupreference"}
NUMBER_TYPES == {"double", "currency", "percent"}
DATE_TYPES   == {"datetime", "date"}
BINARY_TYPES == {"base64", "byte"}
LOOSE_TYPES  == {"anyType", "calculated"}

\* Every tag some branch of field_to_property_schema accepts.
SupportedTypes ==
    STRING_TYPES \cup DATE_TYPES \cup {"boolean"} \cup NUMBER_TYPES
    \cup {"address", "int", "time"} \cup LOOSE_TYPES \cup BINARY_TYPES
    \cup {"location"}

NullString == <<"null", "string">>
NullNumber == <<"null", "number">>

AddressProperties ==
    [street          |-> ("type" :> NullString),
     state           |-> ("type" :> NullString),
     postalCode      |-> ("type" :> NullString),
     city            |-> ("type" :> NullString),
     country         |-> ("type" :> NullString),
     longitude       |-> ("type" :> NullNumber) @@ ("multipleOf" :> "0.000001"),
     latitude        |-> ("type" :> NullNumber) @@ ("multipleOf" :> "0.000001"),
     geocodeAccuracy |-> ("type" :> NullString)]

\* singer.metadata.write(mdata, breadcrumb, k, val): mdata[breadcrumb][k] = val
MetadataWrite(md, breadcrumb, k, val) ==
    LET old == IF breadcrumb \in DOMAIN md THEN md[breadcrumb] ELSE EmptyDict
    IN  (breadcrumb :> ((k :> val) @@ old)) @@ md

\* A plausible slip: trust the descriptor's nillable flag.
NullableWrapTrustingNillable(f, schema) ==
    IF f.nillable
        THEN ("type" :> (<<"null">> \o schema["type"])) @@ schema
        ELSE schema

\* Lines 172-174: every field but 'Id' gets the ["null", T] wrapper.
NullableWrap(f, schema) ==
    IF f.name # "Id"
        THEN ("type" :> (<<"null">> \o schema["type"])) @@ schema
        ELSE schema

\* A branch that sets property_schema['type'] and falls through to the
\* nullable step and the final return (lines 172-176).
Typed(f, md, schema) ==
    [pc |-> "returned", property_schema |-> NullableWrap(f, schema), mdata |-> md]

\* field_to_property_schema: what it returns, or the exception it raises.
field_to_property_schema(f, md) ==
    LET field_name == f.name
        sf_type == f.type
    IN  IF sf_type \in STRING_TYPES THEN Typed(f, md, ("type" :> <<"string">>))
        ELSE IF sf_type \in DATE_TYPES
            THEN Typed(f, md, ("format" :> "date-time") @@ ("type" :> <<"string">>))
        ELSE IF sf_type = "boolean" THEN Typed(f, md, ("type" :> <<"boolean">>))
        ELSE IF sf_type \in NUMBER_TYPES THEN Typed(f, md, ("type" :> <<"number">>))
        ELSE IF sf_type = "address"
            THEN Typed(f, md, ("type" :> <<"object">>)
                              @@ ("properties" :> AddressProperties))
        ELSE IF sf_type = "int" THEN Typed(f, md, ("type" :> <<"integer">>))
        ELSE IF sf_type = "time" THEN Typed(f, md, ("type" :> <<"string">>))
        ELSE IF sf_type \in LOOSE_TYPES
            THEN [pc |-> "returned", property_schema |-> EmptyDict, mdata |-> md]
        ELSE IF sf_type \in BINARY_TYPES
            THEN [pc |-> "returned",
                  property_schema |-> EmptyDict,
                  mdata |-> MetadataWrite(
                               MetadataWrite(md, <<"properties", field_name>>,
                                             "inclusion", "unsupported"),
                               <<"properties", field_name>>,
                               "unsupported-description", "binary data")]
        ELSE IF sf_type = "location"
            THEN Typed(f, md, ("type" :> <<"number">>) @@ ("multipleOf" :> "0.000001"))
        ELSE [pc |-> "raised",
              error |-> "TapSalesforceException",
              message |-> "Found unsupported type: " \o sf_type]

FieldNames == {"Id", "Name", "id"}
FieldTypes == SupportedTypes \cup {"unknowntype"}
Fields == [name : FieldNames, type : FieldTypes, nillable : BOOLEAN]
Mdatas == {EmptyDict, (<<"properties", "Name">> :> ("inclusion" :> "available"))}

MapperIdle ==
    /\ field = [name |-> "Id", type |-> "id", nillable |-> FALSE]
    /\ mdata = EmptyDict
    /\ mapper_result = [pc |-> "pending"]

MapperInit ==
    /\ field \in Fields
    /\ mdata \in Mdatas
    /\ mapper_result = [pc |-> "pending"]

\* One call of field_to_property_schema(field, mdata).
MapField ==
    /\ mapper_result = [pc |-> "pending"]
    /\ mapper_result' = field_to_property_schema(field, mdata)
    /\ UNCHANGED <<field, mdata, queryVars, quotaVars, clientVars>>

(***************************************************************************)
(* The query builder                                                       *)
(***************************************************************************)
\* Python truthiness of a string-or-None value: None and '' are falsy.
Truthy(x) == x # NoneVal /\ x # ""

\* "{}".format(x) for a string or None
Str(x) == IF x = NoneVal THEN "None" ELSE x

\* sep.join(seq)
RECURSIVE Join(_, _)
Join(seq, sep) ==
    IF seq = <<>> THEN ""
    ELSE IF Len(seq) = 1 THEN seq[1]
    ELSE seq[1] \o sep \o Join(Tail(seq), sep)

\* _get_selected_properties: the schema's property names, in the schema's
\* order, that are selected or whose inclusion is 'automatic'.
SelectedOrAutomatic(entry, k) == k \in entry.selected \/ k \in entry.automatic

get_selected_properties(entry) ==
    LET Keep(k) == SelectedOrAutomatic(entry, k)
    IN  SelectSeq(entry.properties, Keep)

\* A plausible slip: the upper bound appended after the order-by.
QueryTailEndDateLast(where_clause, end_date_clause, order_by) ==
    where_clause \o order_by \o end_date_clause

\* Line 347: query + where_clause + end_date_clause + order_by, less the query.
QueryTail(where_clause, end_date_clause, order_by) ==
    where_clause \o end_date_clause \o order_by

build_query_string(entry, sd, ed) ==
    LET selected_properties == get_selected_properties(entry)
        q == "SELECT " \o Join(selected_properties, ",")
             \o " FROM " \o Str(entry.stream)
        replication_key == entry.replication_key
    IN  IF Truthy(replication_key)
            THEN LET where_clause ==
                         " WHERE " \o replication_key \o " >= " \o Str(sd) \o " "
                     end_date_clause ==
                         IF Truthy(ed)
                             THEN " AND " \o replication_key \o " < " \o ed
                             ELSE ""
                     order_by == " ORDER BY " \o replication_key \o " ASC"
                 IN  q \o QueryTail(where_clause, end_date_clause, order_by)
            ELSE q

Streams == {"Account", "Lead"}
ReplicationKeys == {NoneVal, "", "SystemModstamp", "LastModifiedDate"}
PropertyLists == {<<>>, <<"Id">>, <<"Id", "Name">>, <<"Name", "Id">>,
                  <<"Id", "Name", "SystemModstamp">>}
SelectedSets == {{}, {"Name"}, {"Id", "Name"}, {"Name", "SystemModstamp"}}
AutomaticSets == {{}, {"Id"}}
StartDates == {"2020-01-01T00:00:00Z", "2019-06-30T12:00:00Z", NoneVal}
EndDates == {NoneVal, "", "2020-02-01T00:00:00Z"}

CatalogEntries ==
    [stream : Streams, replication_key : ReplicationKeys,
     properties : PropertyLists, selected : SelectedSets,
     automatic : AutomaticSets]

QueryIdle ==
    /\ catalog_entry = [stream |-> "Account", replication_key |-> NoneVal,
                        properties |-> <<>>, selected |-> {}, automatic |-> {}]
    /\ start_date = NoneVal
    /\ end_date = NoneVal
    /\ query = NoneVal

QueryInit ==
    /\ catalog_entry \in CatalogEntries
    /\ start_date \in StartDates
    /\ end_date \in EndDates
    /\ query = NoneVal

\* One call of _build_query_string(catalog_entry, start_date, end_date).
BuildQuery ==
    /\ query = NoneVal
    /\ query' = build_query_string(catalog_entry, start_date, end_date)
    /\ UNCHANGED <<catalog_entry, start_date, end_date, mapperVars, quotaVars,
                   clientVars>>

(***************************************************************************)
(* The quota check                                                         *)
(*                                                                         *)
(* A value of headers.get('Sforce-Limit-Info') is NoHeader (None), a       *)
(* string the pattern ^api-usage=(\d+)/(\d+)$ does not match, or           *)
(* api-usage=<remaining>/<allotted>.  The percentages are whole numbers    *)
(* here, so (remaining / allotted) * 100 > total is compared exactly, as   *)
(* remaining * 100 > total * allotted.                                     *)
(***************************************************************************)
NoHeader        == [kind |-> "none"]
MalformedHeader == [kind |-> "malformed"]
Usage(remaining, allotted) ==
    [kind |-> "usage", remaining |-> remaining, allotted |-> allotted]

\* A plausible slip: the header's first number read as what is left.
TotalExceededOfUnused(remaining, allotted, total) ==
    (allotted - remaining) * 100 > total * allotted

\* Lines 225, 228: percent_used_from_total > self.quota_percent_total
TotalExceeded(remaining, allotted, total) ==
    remaining * 100 > total * allotted

\* Line 226: int((self.quota_percent_per_run * allotted) / 100)
max_requests_for_run(per_run, allotted) == (per_run * allotted) \div 100

\* A plausible slip: >= for >.
PerRunExceededOffByOne(attempted, per_run, allotted) ==
    attempted >= max_requests_for_run(per_run, allotted)

\* Line 237: self.rest_requests_attempted > max_requests_for_run
PerRunExceeded(attempted, per_run, allotted) ==
    attempted > max_requests_for_run(per_run, allotted)

\* A plausible slip: the two branches in the other order.
QuotaVerdictPerRunFirst(total_exceeded, per_run_exceeded) ==
    IF per_run_exceeded THEN "per_run"
    ELSE IF total_exceeded THEN "total"
    ELSE "ok"

\* Lines 228-243: the if / elif, the total-usage branch first.
QuotaVerdict(total_exceeded, per_run_exceeded) ==
    IF total_exceeded THEN "total"
    ELSE IF per_run_exceeded THEN "per_run"
    ELSE "ok"

Returned == [pc |-> "returned"]
Raised(error, variant, message) ==
    [pc |-> "raised", error |-> error, variant |-> variant, message |-> message]

\* check_rest_quota_usage(headers): how the call ends.
check_rest_quota_usage(header, attempted, per_run, total) ==
    IF header.kind = "none"
        \* re.search(pattern, None)
        THEN Raised("TypeError", "", <<>>)
    ELSE IF header.kind = "malformed"
        THEN Returned
    ELSE IF header.allotted = 0
        THEN Raised("ZeroDivisionError", "", <<>>)
    ELSE
        LET remaining == header.remaining
            allotted == header.allotted
            verdict == QuotaVerdict(TotalExceeded(remaining, allotted, total),
                                    PerRunExceeded(attempted, per_run, allotted))
        IN  IF verdict = "total"
                THEN Raised("TapSalesforceQuotaExceededException", "total",
                            <<remaining, allotted, total>>)
            ELSE IF verdict = "per_run"
                THEN Raised("TapSalesforceQuotaExceededException", "per_run",
                            <<attempted, allotted, per_run>>)
            ELSE Returned

(***************************************************************************)
(* The request dispatcher                                                  *)
(***************************************************************************)
\* requests.Response.raise_for_status raises for 4xx and 5xx.
raise_for_status(status) == 400 <= status /\ status < 600

\* requests.Session() sends its own default headers, the caller's laid over
\* them; none of the defaults is an Authorization header.
SessionHeaders == ("User-Agent" :> "python-requests")

\* A plausible slip: the dispatcher falling back on the bearer header.
OutboundHeadersDefaultingToBearer(headers, token) ==
    IF headers = NoneDict
        THEN ("Authorization" :> ("Bearer " \o token)) @@ SessionHeaders
        ELSE headers @@ SessionHeaders

\* Lines 249, 252: headers=headers, whatever the caller passed.
OutboundHeaders(headers, token) ==
    IF headers = NoneDict THEN SessionHeaders ELSE headers @@ SessionHeaders

\* Line 212
get_standard_headers(token) ==
    ("Authorization" :> ("Bearer " \o (IF token = NoneVal THEN "None" ELSE token)))

NothingSent == [method |-> NoneVal, url |-> NoneVal, headers |-> NoneDict]

\* _make_request(http_method, url, headers) when the server answers resp =
\* [status, limit]: the request sent, the counter, and how the call ends.
make_request(http_method, url, headers, resp, token, attempted, per_run, total) ==
    IF http_method \notin {"GET", "POST"}
        THEN [sent |-> NothingSent,
              attempted |-> attempted,
              end |-> Raised("TapSalesforceException", "", <<"Unsupported HTTP method">>)]
    ELSE
        LET request == [method |-> http_method, url |-> url,
                        headers |-> OutboundHeaders(headers, token)]
        IN  IF raise_for_status(resp.status)
                THEN [sent |-> request,
                      attempted |-> attempted,
                      end |-> Raised("TapSalesforceHTTPException", "", <<resp.status>>)]
            ELSE IF resp.limit # NoHeader
                THEN [sent |-> request,
                      attempted |-> attempted + 1,
                      end |-> check_rest_quota_usage(resp.limit, attempted + 1,
                                                     per_run, total)]
            ELSE [sent |-> request, attempted |-> attempted, end |-> Returned]

(***************************************************************************)
(* The client: construction                                                *)
(***************************************************************************)
\* The minimum expiration setting for SF Refresh Tokens is 15 minutes
MinTokenLifetime == 900
REFRESH_TOKEN_EXPIRATION_PERIOD == 900

\* self.login_timer = None
NoTimer == 0

\* Bounds of the model
MaxLogins == 3          \* login() invocations, the timer's included
MaxTime == 1800         \* seconds the clock runs
MaxRequests == 5        \* usage-carrying responses counted

NotCalled == [pc |-> "none"]
NoResp == [status |-> 0, text |-> ""]
NoCall == [op |-> NoneVal, headers |-> NoneDict]

CallerIdle ==
    [pc |-> "idle", resp |-> NoResp, auth |-> NoneDict, end |-> NotCalled,
     call |-> NoCall, headers |-> NoneDict, sobject |-> NoneVal, url |-> NoneVal,
     token_age |-> 0]

\* Salesforce.__init__ (lines 191-209) but for the request counter, and the
\* bookkeeping at zero.
ConstructedBut(per_run, total) ==
    /\ access_token = NoneVal
    /\ instance_url = NoneVal
    /\ quota_percent_per_run = per_run
    /\ quota_percent_total = total
    /\ login_timer = NoTimer
    /\ caller = CallerIdle
    /\ timers = <<>>
    /\ sent = NothingSent
    /\ now = 0
    /\ issue_time = <<>>
    /\ n_logins = 0
    /\ returned_count = 0
    /\ allotted_seen = {}
    /\ precondition_lost = FALSE

\* Salesforce.__init__: self.rest_requests_attempted = 0
Constructed(per_run, total) ==
    /\ ConstructedBut(per_run, total)
    /\ rest_requests_attempted = 0

QuotaIdle ==
    /\ q_headers = NoHeader
    /\ q_outcome = [pc |-> "pending"]

(***************************************************************************)
(* check_rest_quota_usage on its own: the inputs drawn, then one call      *)
(***************************************************************************)
PerRunPercents == {0, 25, 33, 100}
TotalPercents == {0, 80, 95, 100}
AttemptedCounts == {0, 1, 250, 251, 330, 1000}
UsageHeaders ==
    {Usage(r, a) : r \in {0, 1, 2, 3}, a \in {0, 3}}
    \cup {Usage(r, a) : r \in {0, 800, 801, 900, 950, 1000}, a \in {0, 1000}}
QuotaHeaders == {NoHeader, MalformedHeader} \cup UsageHeaders

\* A client that has made some number of REST requests, and a header.
QuotaInit ==
    /\ \E per_run \in PerRunPercents, total \in TotalPercents :
           ConstructedBut(per_run, total)
    /\ rest_requests_attempted \in AttemptedCounts
    /\ q_headers \in QuotaHeaders
    /\ q_outcome = [pc |-> "pending"]

\* One call of check_rest_quota_usage(headers).
CheckQuota ==
    /\ q_outcome.pc = "pending"
    /\ q_outcome' = check_rest_quota_usage(q_headers, rest_requests_attempted,
                                           quota_percent_per_run, quota_percent_total)
    /\ UNCHANGED <<mapperVars, queryVars, q_headers, clientVars>>

(***************************************************************************)
(* login(), on the calling thread (thread 0) or on timer i's thread        *)
(* (thread i).  A step is the code between two accesses of the fields the  *)
(* threads share.                                                          *)
(***************************************************************************)
Threads == 0 .. Len(timers)
Frame(t) == IF t = 0 THEN caller ELSE timers[t]
LoginPcs == {"login_post", "login_set_token", "login_set_url", "login_arm"}
InLogin(t) == Frame(t).pc \in LoginPcs

\* What the token endpoint hands out at its n-th successful exchange.
TokenOf(n) == IF n = 0 THEN NoneVal ELSE "token" \o ToString(n)
UrlOf(n) == IF n = 0 THEN NoneVal ELSE "https://na" \o ToString(n) \o ".salesforce.com"
AuthOf(n) == [access_token |-> TokenOf(n), instance_url |-> UrlOf(n)]
AuthText(n) == "{access_token: " \o TokenOf(n) \o ", instance_url: " \o UrlOf(n) \o "}"

\* The token endpoint answers 200 with the credentials, or 400 or 500 with an
\* error body (requests follows redirects itself).
LoginStatuses == {200, 400, 500}
ErrorBody(status) ==
    IF status < 500 THEN "{error: invalid_grant}" ELSE "Service Unavailable"

\* Line 285: str(e) + ", Response from Salesforce: {}".format(resp.text)
LoginErrorMessage(status, text) ==
    <<ToString(status) \o " Error", ", Response from Salesforce: " \o text>>

\* Thread t's frame replaced by f.
CallerWith(t, f) == IF t = 0 THEN f ELSE caller
TimersWith(t, f) == IF t = 0 THEN timers ELSE [timers EXCEPT ![t] = f]

\* login() raised on thread t: the calling thread gets the exception, a
\* timer's thread ends with it.
Unwound(t, resp, err) ==
    [Frame(t) EXCEPT !.pc = IF t = 0 THEN "idle" ELSE "died",
                     !.resp = resp, !.auth = NoneDict, !.end = err]

NewTimer(deadline) ==
    [pc |-> "pending", deadline |-> deadline, resp |-> NoResp, auth |-> NoneDict,
     end |-> NotCalled]

\* A plausible slip: the timer armed in a finally clause, so on failure too.
TimersAfterRaiseFinally(tms, at) ==
    Append(tms, NewTimer(at + REFRESH_TOKEN_EXPIRATION_PERIOD))

\* Lines 282-285: the raise leaves login() before line 293 creates a timer.
TimersAfterRaise(tms, at) == tms

\* The calling thread calls login().
CallLogin ==
    /\ caller.pc = "idle"
    /\ n_logins < MaxLogins
    /\ caller' = [caller EXCEPT !.pc = "login_post", !.end = NotCalled,
                                !.resp = NoResp,
                                !.call = [op |-> "login", headers |-> NoneDict]]
    /\ n_logins' = n_logins + 1
    /\ UNCHANGED <<mapperVars, queryVars, quotaVars, configVars, requestVars,
                   access_token, instance_url, login_timer, timers, now, issue_time>>

\* threading.Timer i runs out and calls login() on its own thread.
TimerFire(i) ==
    /\ timers[i].pc = "pending"
    /\ now >= timers[i].deadline
    /\ n_logins < MaxLogins
    /\ timers' = [timers EXCEPT ![i].pc = "login_post"]
    /\ n_logins' = n_logins + 1
    /\ UNCHANGED <<mapperVars, queryVars, quotaVars, configVars, requestVars,
                   access_token, instance_url, login_timer, caller, now, issue_time>>

\* Lines 268-289: the exchange, raise_for_status, resp.json().
LoginPost(t) ==
    /\ Frame(t).pc = "login_post"
    /\ \/ \* session.post itself raises: no response
          /\ caller' = CallerWith(t, Unwound(t, NoResp,
                                     Raised("ConnectionError", "", <<>>)))
          /\ timers' = TimersAfterRaise(
                           TimersWith(t, Unwound(t, NoResp,
                                         Raised("ConnectionError", "", <<>>))), now)
          /\ UNCHANGED issue_time
       \/ \E status \in LoginStatuses :
              /\ raise_for_status(status)
              /\ LET resp == [status |-> status, text |-> ErrorBody(status)]
                     err == Raised("Exception", "",
                                   LoginErrorMessage(status, ErrorBody(status)))
                 IN  /\ caller' = CallerWith(t, Unwound(t, resp, err))
                     /\ timers' = TimersAfterRaise(
                                      TimersWith(t, Unwound(t, resp, err)), now)
              /\ UNCHANGED issue_time
       \/ \E status \in LoginStatuses :
              /\ ~raise_for_status(status)
              /\ LET n == Len(issue_time) + 1
                     f == [Frame(t) EXCEPT
                               !.pc = "login_set_token",
                               !.resp = [status |-> status, text |-> AuthText(n)],
                               !.auth = AuthOf(n)]
                 IN  /\ caller' = CallerWith(t, f)
                     /\ timers' = TimersWith(t, f)
                     /\ issue_time' = Append(issue_time, now)
    /\ UNCHANGED <<mapperVars, queryVars, quotaVars, configVars, requestVars,
                   access_token, instance_url, login_timer, now, n_logins>>

\* Line 291: self.access_token = auth['access_token']
LoginSetToken(t) ==
    /\ Frame(t).pc = "login_set_token"
    /\ access_token' = Frame(t).auth.access_token
    /\ caller' = CallerWith(t, [Frame(t) EXCEPT !.pc = "login_set_url"])
    /\ timers' = TimersWith(t, [Frame(t) EXCEPT !.pc = "login_set_url"])
    /\ UNCHANGED <<mapperVars, queryVars, quotaVars, configVars, requestVars,
                   instance_url, login_timer, now, issue_time, n_logins>>

\* Line 292: self.instance_url = auth['instance_url']
LoginSetUrl(t) ==
    /\ Frame(t).pc = "login_set_url"
    /\ instance_url' = Frame(t).auth.instance_url
    /\ caller' = CallerWith(t, [Frame(t) EXCEPT !.pc = "login_arm"])
    /\ timers' = TimersWith(t, [Frame(t) EXCEPT !.pc = "login_arm"])
    /\ UNCHANGED <<mapperVars, queryVars, quotaVars, configVars, requestVars,
                   access_token, login_timer, now, issue_time, n_logins>>

\* Lines 293-294: a new Timer is created, stored and started; the one
\* self.login_timer held before is neither cancelled nor kept.
LoginArm(t) ==
    /\ Frame(t).pc = "login_arm"
    /\ LET f == [Frame(t) EXCEPT !.pc = IF t = 0 THEN "idle" ELSE "finished",
                                 !.resp = NoResp, !.auth = NoneDict,
                                 !.end = Returned]
       IN  /\ caller' = CallerWith(t, f)
           /\ timers' = Append(TimersWith(t, f),
                               NewTimer(now + REFRESH_TOKEN_EXPIRATION_PERIOD))
    /\ login_timer' = Len(timers) + 1
    /\ UNCHANGED <<mapperVars, queryVars, quotaVars, configVars, requestVars,
                   access_token, instance_url, now, issue_time, n_logins>>

\* The timers armed and not yet fired.
LiveTimers == {i \in 1 .. Len(timers) : timers[i].pc = "pending"}

\* Time passes.  A timer fires when its interval is over and a login
\* completes at once: the clock stands still while a timer is due or a
\* login is under way.
TickSteps == {300, 900}

Tick ==
    \E d \in TickSteps :
        /\ now + d <= MaxTime
        /\ \A t \in Threads : ~InLogin(t)
        /\ \A i \in LiveTimers : now + d <= timers[i].deadline
        /\ now' = now + d
        /\ UNCHANGED <<mapperVars, queryVars, quotaVars, configVars, requestVars,
                       access_token, instance_url, login_timer, caller, timers,
                       issue_time, n_logins>>

(***************************************************************************)
(* _make_request and describe(), on the calling thread                     *)
(***************************************************************************)
\* self.data_url = "{}/services/data/v41.0/{}"
data_url(instance, endpoint) ==
    (IF instance = NoneVal THEN "None" ELSE instance)
    \o "/services/data/v41.0/" \o endpoint

\* Lines 299-306
describe_url(instance, sobject) ==
    IF sobject = NoneVal
        THEN data_url(instance, "sobjects")
        ELSE data_url(instance, "sobjects/" \o sobject \o "/describe")

\* The token the server issued as its n-th, for a token the client holds.
SerialOf(token) ==
    IF token = NoneVal THEN 0
    ELSE CHOOSE n \in 1 .. Len(issue_time) : TokenOf(n) = token

AgeOf(token) == IF token = NoneVal THEN 0 ELSE now - issue_time[SerialOf(token)]

\* What a _make_request call leaves behind, the bookkeeping included.
Dispatch(op, http_method, url, headers, resp) ==
    LET r == make_request(http_method, url, headers, resp, access_token,
                          rest_requests_attempted, quota_percent_per_run,
                          quota_percent_total)
        counted == r.attempted # rest_requests_attempted
    IN  /\ counted => rest_requests_attempted < MaxRequests
        /\ rest_requests_attempted' = r.attempted
        /\ sent' = r.sent
        /\ caller' = [CallerIdle EXCEPT
                          !.end = r.end,
                          !.call = [op |-> op, headers |-> headers]]
        /\ returned_count' =
               IF counted /\ r.end = Returned THEN returned_count + 1
               ELSE returned_count
        /\ allotted_seen' =
               IF counted /\ resp.limit.kind = "usage"
                   THEN allotted_seen \cup {resp.limit.allotted}
                   ELSE allotted_seen
        /\ precondition_lost' =
               \/ precondition_lost
               \/ /\ r.sent # NothingSent
                  /\ ~raise_for_status(resp.status)
                  /\ \/ resp.limit.kind # "usage"
                     \/ resp.limit.allotted = 0
                     \/ resp.limit.remaining * 100
                            > quota_percent_total * resp.limit.allotted

Methods == {"GET", "POST", "PUT"}
Urls == {"https://na1.salesforce.com/services/data/v41.0/queryAll"}
CallerHeaders == {("X-SFDC-Session" :> "token1")}

\* A caller other than describe() (the REST and Bulk executors) calls
\* _make_request, with headers of its own or with none.
CallMakeRequest(Resps) ==
    /\ caller.pc = "idle"
    /\ \E http_method \in Methods, url \in Urls,
          headers \in CallerHeaders \cup {NoneDict}, resp \in Resps :
           Dispatch("_make_request", http_method, url, headers, resp)
    /\ UNCHANGED <<mapperVars, queryVars, quotaVars, configVars, sessionVars>>

Sobjects == {NoneVal, "Account"}

\* Line 298: headers = self._get_standard_headers()
DescribeHeaders ==
    /\ caller.pc = "idle"
    /\ \E sobject \in Sobjects :
           caller' = [CallerIdle EXCEPT
                          !.pc = "describe_url",
                          !.end = NotCalled,
                          !.call = [op |-> "describe", headers |-> NoneDict],
                          !.sobject = sobject,
                          !.headers = get_standard_headers(access_token),
                          !.token_age = AgeOf(access_token)]
    /\ UNCHANGED <<mapperVars, queryVars, quotaVars, configVars, sessionVars,
                   requestVars>>

\* Lines 299-306: url = self.data_url.format(self.instance_url, endpoint)
DescribeUrl ==
    /\ caller.pc = "describe_url"
    /\ caller' = [caller EXCEPT
                      !.pc = "describe_request",
                      !.url = describe_url(instance_url, caller.sobject)]
    /\ UNCHANGED <<mapperVars, queryVars, quotaVars, configVars, sessionVars,
                   requestVars>>

\* Lines 308-312: resp = self._make_request('GET', url, headers=headers)
DescribeRequest(Resps) ==
    /\ caller.pc = "describe_request"
    /\ \E resp \in Resps :
           Dispatch("describe", "GET", caller.url, caller.headers, resp)
    /\ UNCHANGED <<mapperVars, queryVars, quotaVars, configVars, sessionVars>>

(***************************************************************************)
(* The specifications                                                      *)
(***************************************************************************)
\* What the server answers a describe or query request.
Response(status, limit) == [status |-> status, limit |-> limit]

\* Answers that carry no usage header.
PlainResponses == {Response(200, NoHeader), Response(401, NoHeader)}

\* Answers of the REST API: a usage header on the successful ones.
RestLimits ==
    {NoHeader, MalformedHeader, Usage(0, 0)}
    \cup {Usage(r, 4) : r \in {1, 3, 4}}
    \cup {Usage(r, 6) : r \in {1, 5, 6}}
RestResponses ==
    {Response(200, l) : l \in RestLimits} \cup {Response(500, NoHeader)}

\* The client, from construction with the default thresholds: the calling
\* thread logs in, describes and sends requests while the renewal timers run.
Init ==
    /\ MapperIdle
    /\ QueryIdle
    /\ QuotaIdle
    /\ Constructed(25, 80)

Next ==
    \/ CallLogin
    \/ \E t \in Threads : LoginPost(t)
    \/ \E t \in Threads : LoginSetToken(t)
    \/ \E t \in Threads : LoginSetUrl(t)
    \/ \E t \in Threads : LoginArm(t)
    \/ \E i \in 1 .. Len(timers) : TimerFire(i)
    \/ Tick
    \/ DescribeHeaders
    \/ DescribeUrl
    \/ DescribeRequest(PlainResponses)

Spec == Init /\ [][Next]_vars

\* The calling thread alone, within the first renewal period, against the
\* REST API and its usage headers.
ClientPerRunPercents == {25, 50}
ClientTotalPercents == {80}

\* The client once its first login() has returned at time 0.
LoggedIn(per_run, total) ==
    /\ access_token = TokenOf(1)
    /\ instance_url = UrlOf(1)
    /\ quota_percent_per_run = per_run
    /\ quota_percent_total = total
    /\ rest_requests_attempted = 0
    /\ login_timer = 1
    /\ caller = [CallerIdle EXCEPT
                     !.end = Returned,
                     !.call = [op |-> "login", headers |-> NoneDict]]
    /\ timers = <<NewTimer(REFRESH_TOKEN_EXPIRATION_PERIOD)>>
    /\ sent = NothingSent
    /\ now = 0
    /\ issue_time = <<0>>
    /\ n_logins = 1
    /\ returned_count = 0
    /\ allotted_seen = {}
    /\ precondition_lost = FALSE

RequestInit ==
    /\ MapperIdle
    /\ QueryIdle
    /\ QuotaIdle
    /\ \E per_run \in ClientPerRunPercents, total \in ClientTotalPercents :
           \/ Constructed(per_run, total)
           \/ LoggedIn(per_run, total)

RequestNext ==
    \/ DescribeHeaders
    \/ DescribeUrl
    \/ DescribeRequest(RestResponses)
    \/ CallMakeRequest(RestResponses)

RequestSpec == RequestInit /\ [][RequestNext]_vars

\* check_rest_quota_usage over drawn inputs.
QuotaSpecInit == MapperIdle /\ QueryIdle /\ QuotaInit
QuotaNext == CheckQuota
QuotaSpec == QuotaSpecInit /\ [][QuotaNext]_vars

\* field_to_property_schema over drawn field descriptors.
MapperSpecInit == MapperInit /\ QueryIdle /\ QuotaIdle /\ Constructed(25, 80)
MapperNext == MapField
MapperSpec == MapperSpecInit /\ [][MapperNext]_vars

\* _build_query_string over drawn catalog entries and bookmarks.
QuerySpecInit == MapperIdle /\ QueryInit /\ QuotaIdle /\ Constructed(25, 80)
QueryNext == BuildQuery
QuerySpec == QuerySpecInit /\ [][QueryNext]_vars

(***************************************************************************)
(* The claims                                                              *)
(***************************************************************************)
FrameNext(t) == IF t = 0 THEN caller' ELSE timers'[t]

ErrorOf(end) == IF end.pc = "raised" THEN end.error ELSE NoneVal

IsQuotaError(end, variant) ==
    /\ end.pc = "raised"
    /\ end.error = "TapSalesforceQuotaExceededException"
    /\ end.variant = variant

\* C1: at most one renewal timer is armed and not yet fired, whatever login()
\* calls and timer firings came before.
C1_AtMostOneLiveTimer == Cardinality(LiveTimers) <= 1

\* C2: the token describe() read for its header and the instance URL it read
\* for its request URL were installed by the same login (or are both the
\* None of construction).
C2_PairFromOneLogin ==
    caller.pc = "describe_request" =>
        \E n \in 0 .. Len(issue_time) :
            /\ caller.headers = get_standard_headers(TokenOf(n))
            /\ caller.url = describe_url(UrlOf(n), caller.sobject)

\* The step in which a thread's exchange is answered with an error status.
C3_FailedLoginStep ==
    \A t \in Threads :
        (/\ Frame(t).pc = "login_post"
         /\ FrameNext(t).pc # "login_post"
         /\ FrameNext(t).resp # NoResp
         /\ FrameNext(t).resp.status \notin 200 .. 299)
        => /\ FrameNext(t).pc = (IF t = 0 THEN "idle" ELSE "died")
           /\ FrameNext(t).end.pc = "raised"
           /\ FrameNext(t).end.error = "Exception"
           /\ FrameNext(t).end.message[2]
                  = ", Response from Salesforce: " \o FrameNext(t).resp.text
           /\ Len(timers') = Len(timers)
           /\ LiveTimers' = LiveTimers
           /\ login_timer' = login_timer
           /\ access_token' = access_token
           /\ instance_url' = instance_url

\* C3: a login() whose exchange is answered with an error status raises the
\* exception that carries the response body, creates no timer and leaves
\* access_token, instance_url and login_timer as they were, on the calling
\* thread and on a timer's thread alike.
C3_FailedLoginLeavesSession == [][C3_FailedLoginStep]_vars

\* C3 happens: a renewal login on a timer's thread was answered 500 after an
\* earlier login had installed a token.
C3_Witness ==
    \E i \in 1 .. Len(timers) :
        /\ timers[i].pc = "died"
        /\ timers[i].resp.status = 500
        /\ timers[i].end.error = "Exception"
        /\ access_token = TokenOf(1)

\* C4: while no renewal login has failed, a token describe() reads is younger
\* than the server's minimum token lifetime.
C4_NoReadOfExpiredToken ==
    (/\ caller.pc \in {"describe_url", "describe_request"}
     /\ \A i \in 1 .. Len(timers) : timers[i].pc # "died")
    => caller.token_age < MinTokenLifetime

\* The quota check was called with api-usage=<remaining>/<allotted> and ended.
QuotaChecked(remaining, allotted) ==
    /\ q_outcome.pc # "pending"
    /\ q_headers = Usage(remaining, allotted)

\* C5: for a usage header (allotted above zero, where remaining/allotted is
\* defined), the check raises the total-usage error exactly when
\* remaining/allotted*100 > quotaPercentTotal, the per-run error exactly when
\* that is false and attemptedCount > floor(quotaPercentPerRun*allotted/100),
\* and otherwise returns; api-usage=900/1000 with 25% and 80% raises the
\* total-usage error whatever the count.
C5_QuotaDecision ==
    (/\ q_outcome.pc # "pending"
     /\ q_headers.kind = "usage"
     /\ q_headers.allotted > 0)
    => LET remaining == q_headers.remaining
           allotted == q_headers.allotted
           overTotal == remaining * 100 > quota_percent_total * allotted
           overRun == rest_requests_attempted
                          > (quota_percent_per_run * allotted) \div 100
       IN  /\ IsQuotaError(q_outcome, "total") <=> overTotal
           /\ IsQuotaError(q_outcome, "per_run") <=> (~overTotal /\ overRun)
           /\ q_outcome = Returned <=> (~overTotal /\ ~overRun)
           /\ (/\ remaining = 900
               /\ allotted = 1000
               /\ quota_percent_per_run = 25
               /\ quota_percent_total = 80) => IsQuotaError(q_outcome, "total")

\* C5 happens: 900/1000 with both thresholds exceeded raised the total error.
C5_Witness ==
    /\ QuotaChecked(900, 1000)
    /\ quota_percent_per_run = 25
    /\ quota_percent_total = 80
    /\ rest_requests_attempted = 251
    /\ IsQuotaError(q_outcome, "total")

\* The case of C6: 950/1000, 25% per run, 80% total, more than 250 requests.
C6_Case ==
    /\ QuotaChecked(950, 1000)
    /\ quota_percent_per_run = 25
    /\ quota_percent_total = 80
    /\ rest_requests_attempted > 250

\* C6 as stated: in that case the check raises the per-run error, not the
\* total-usage one.
C6_RaisesPerRun == C6_Case => IsQuotaError(q_outcome, "per_run")

\* C6 as amended: in that case the check raises the total-usage error
\* (950/1000*100 = 95 > 80), reporting 950, 1000 and 80, not the per-run one.
C6_RaisesTotal ==
    C6_Case => /\ IsQuotaError(q_outcome, "total")
               /\ q_outcome.message = <<950, 1000, 80>>

\* C6 happens: the case with 251 requests.
C6_Witness == C6_Case /\ rest_requests_attempted = 251 /\ q_outcome.pc = "raised"

\* The calling thread's last call went through _make_request and sent a
\* request.
RequestSent ==
    /\ caller.pc = "idle"
    /\ caller.call.op \in {"_make_request", "describe"}
    /\ sent # NothingSent

\* C7 as stated: a _make_request call given no headers sends the bearer
\* header of the current access token.
C7_BearerByDefault ==
    (RequestSent /\ caller.call.headers = NoneDict)
    => /\ "Authorization" \in DOMAIN sent.headers
       /\ sent.headers["Authorization"] = "Bearer " \o Str(access_token)

\* C7 as amended: _make_request sends the headers its caller passed and adds
\* none; given no headers the request carries no Authorization header.  The
\* bearer header of the current access token is on the request when the
\* caller passes it, as describe() does.
C7_HeadersAsPassed ==
    RequestSent
    => /\ caller.call.headers = NoneDict
              => /\ "Authorization" \notin DOMAIN sent.headers
                 /\ sent.headers = SessionHeaders
       /\ caller.call.headers # NoneDict
              => \A k \in DOMAIN caller.call.headers :
                     /\ k \in DOMAIN sent.headers
                     /\ sent.headers[k] = caller.call.headers[k]
       /\ caller.call.op = "describe"
              => /\ "Authorization" \in DOMAIN sent.headers
                 /\ sent.headers["Authorization"] = "Bearer " \o Str(access_token)

\* C7 happens: a logged-in client's _make_request call without headers sent a
\* GET.
C7_Witness ==
    /\ RequestSent
    /\ caller.call = [op |-> "_make_request", headers |-> NoneDict]
    /\ sent.method = "GET"
    /\ access_token = TokenOf(1)

\* The declared type is the wrapper ["null", T].
BaseTypes == {"string", "boolean", "number", "object", "integer"}
HasNullableWrapper(schema) ==
    /\ "type" \in DOMAIN schema
    /\ \E T \in BaseTypes : schema["type"] = <<"null", T>>

\* C8 as stated: for every supported type tag the fragment has the nullable
\* wrapper exactly when the field is not 'Id'.
C8_WrapperUnlessId ==
    mapper_result.pc = "returned"
    => (HasNullableWrapper(mapper_result.property_schema) <=> field.name # "Id")

\* C8 as amended: for every supported type tag outside the loosely-typed and
\* binary classes the fragment has the nullable wrapper exactly when the field
\* is not 'Id', whatever the nillable flag ('Id' keeps its bare type); the
\* fragment of a loosely-typed or binary field has no declared type at all,
\* whatever its name.
C8_WrapperUnlessIdOrUntyped ==
    mapper_result.pc = "returned"
    => IF field.type \in LOOSE_TYPES \cup BINARY_TYPES
           THEN "type" \notin DOMAIN mapper_result.property_schema
           ELSE /\ "type" \in DOMAIN mapper_result.property_schema
                /\ HasNullableWrapper(mapper_result.property_schema)
                       <=> field.name # "Id"
                /\ field.name = "Id"
                       => \E T \in BaseTypes :
                              mapper_result.property_schema["type"] = <<T>>

\* C8 happens: a non-nillable date field other than 'Id' came back wrapped.
C8_Witness ==
    /\ mapper_result.pc = "returned"
    /\ field = [name |-> "Name", type |-> "datetime", nillable |-> FALSE]
    /\ mapper_result.property_schema["type"] = <<"null", "string">>

\* C9: with a replication key K the query is 'SELECT <F> FROM <stream> WHERE
\* K >= S ', then ' AND K < E' exactly when an end bookmark is given, then
\* ' ORDER BY K ASC'; with no replication key it is 'SELECT <F> FROM <stream>'
\* whatever the bookmarks.  F is the selected fields joined by commas.
C9_QueryString ==
    query # NoneVal
    => LET F == Join(get_selected_properties(catalog_entry), ",")
           K == catalog_entry.replication_key
           head == "SELECT " \o F \o " FROM " \o catalog_entry.stream
           example ==
               /\ catalog_entry.stream = "Account"
               /\ catalog_entry.properties = <<"Id", "Name">>
               /\ catalog_entry.selected = {"Id", "Name"}
               /\ K = "SystemModstamp"
               /\ start_date = "2020-01-01T00:00:00Z"
       IN  /\ Truthy(K) /\ Truthy(end_date)
               => query = head \o " WHERE " \o K \o " >= " \o Str(start_date) \o " "
                          \o " AND " \o K \o " < " \o end_date
                          \o " ORDER BY " \o K \o " ASC"
           /\ Truthy(K) /\ ~Truthy(end_date)
               => query = head \o " WHERE " \o K \o " >= " \o Str(start_date) \o " "
                          \o " ORDER BY " \o K \o " ASC"
           /\ ~Truthy(K) => query = head
           /\ example /\ end_date = NoneVal
               => query = "SELECT Id,Name FROM Account WHERE SystemModstamp >= "
                          \o "2020-01-01T00:00:00Z  ORDER BY SystemModstamp ASC"
           /\ example /\ end_date = "2020-02-01T00:00:00Z"
               => query = "SELECT Id,Name FROM Account WHERE SystemModstamp >= "
                          \o "2020-01-01T00:00:00Z  AND SystemModstamp < "
                          \o "2020-02-01T00:00:00Z ORDER BY SystemModstamp ASC"

\* C9 happens: the query with both bookmarks was built.
C9_Witness ==
    /\ catalog_entry.replication_key = "SystemModstamp"
    /\ catalog_entry.properties = <<"Id", "Name">>
    /\ catalog_entry.selected = {"Id", "Name"}
    /\ end_date = "2020-02-01T00:00:00Z"
    /\ query # NoneVal

Min(a, b) == IF a <= b THEN a ELSE b

\* Every successful response so far carried a well-formed usage header with
\* the one allotted value A and a total usage within the threshold.
OneAllotted(A) == ~precondition_lost /\ allotted_seen = {A}

\* Under that precondition the responses returned are the first
\* floor(quotaPercentPerRun*A/100) counted ones and the later ones raise.
C10_Invariant ==
    \A A \in allotted_seen :
        OneAllotted(A)
        => LET M == (quota_percent_per_run * A) \div 100
           IN  /\ returned_count = Min(rest_requests_attempted, M)
               /\ (RequestSent /\ ErrorOf(caller.end) # "TapSalesforceHTTPException")
                      => /\ rest_requests_attempted <= M <=> caller.end = Returned
                         /\ rest_requests_attempted > M
                                <=> IsQuotaError(caller.end, "per_run")

\* C10: while every successful response carries a well-formed usage header
\* with one allotted value A and a total usage within the threshold, the
\* responses returned to the caller are exactly the first
\* floor(quotaPercentPerRun*A/100), every later one raises the per-run error,
\* and the attempted-request counter never decreases.
C10_PerRunLimit ==
    /\ []C10_Invariant
    /\ [][rest_requests_attempted' >= rest_requests_attempted]_vars

\* C10 happens: with A = 4 and 50% per run, two responses were returned and
\* the fourth raised the per-run error.
C10_Witness ==
    /\ OneAllotted(4)
    /\ quota_percent_per_run = 50
    /\ rest_requests_attempted = 4
    /\ returned_count = 2
    /\ IsQuotaError(caller.end, "per_run")

====
